---- MODULE Spec2Model ----
(***************************************************************************)
(* The block-payload codec of the sequencer (sequencer/src/block.rs): the  *)
(* BlockPayload implementation for Payload<TxTableEntryWord>.              *)
(*                                                                         *)
(* block.rs is glue over Payload::from_txs, NameSpaceTable and the         *)
(* transaction iterator (modules block/payload, block/tables,              *)
(* block/tx_iterator, block/entry).  Those are modelled from the design    *)
(* document; the namespace-table layout is also documented in block.rs     *)
(* itself (the doc comment of from_transactions).                          *)
(*                                                                         *)
(* Bytes are the integers 0..ByteBase-1, byte strings are sequences of     *)
(* them, and offsets are 0-based as in the code: the slice bs[lo..hi] is   *)
(* SubSeq(bs, lo + 1, hi).                                                 *)
(***************************************************************************)
EXTENDS Integers, Sequences, FiniteSets, TLC

\* ------------------------------------------------------------- bounds
\* Longest transaction sequence handed to from_transactions.
MaxTxs == 3
\* Length of the one long transaction body: one of them fits a namespace
\* region whose offsets fit a Word, two of them do not.
BigLen == 130

\* ---------------------------------------------------------- constants
\* A byte (u8) holds 0..255.
ByteBase == 256
\* Width of the u64 length prefixes of builder_commitment.
U64Bytes == 8
\* Width of a table Word in bytes.  The Word type is TxTableEntryWord; the
\* model takes the narrowest width, so that offsets past the Word's capacity
\* are reached by payloads of a few hundred bytes.
WordBytes == 1

Min(a, b) == IF a <= b THEN a ELSE b
Max(a, b) == IF a >= b THEN a ELSE b

RECURSIVE Concat(_)
Concat(ss) == IF ss = <<>> THEN <<>> ELSE Head(ss) \o Concat(Tail(ss))

\* ---------------------------------------------------------- Word codec
WordMax == ByteBase ^ WordBytes - 1

\* v.to_le_bytes() for an n-byte unsigned integer.
RECURSIVE to_le_bytes(_, _)
to_le_bytes(v, n) ==
    IF n = 0 THEN <<>>
    ELSE <<v % ByteBase>> \o to_le_bytes(v \div ByteBase, n - 1)

\* from_le_bytes: the unsigned integer a little-endian byte string holds.
RECURSIVE from_le_bytes(_)
from_le_bytes(bs) ==
    IF bs = <<>> THEN 0
    ELSE Head(bs) + ByteBase * from_le_bytes(Tail(bs))

\* Converting an integer into a Word: fails with an overflow condition when
\* the value exceeds the Word's capacity.
word_try_from(v) ==
    IF v <= WordMax
    THEN [ok |-> TRUE, bytes |-> to_le_bytes(v, WordBytes)]
    ELSE [ok |-> FALSE, bytes |-> <<>>]

\* A bounds-checked read of the Word at byte offset pos inside bs[lo..hi]:
\* the bytes the region does not hold read as zero.
read_word(bs, lo, hi, pos) ==
    LET a == Min(lo + pos, hi)
        b == Min(lo + pos + WordBytes, hi)
    IN  from_le_bytes(SubSeq(bs, a + 1, b))

\* The byte ranges <<from, to>> (0-based, half open) read_word slices.
read_word_range(lo, hi, pos) ==
    <<Min(lo + pos, hi), Min(lo + pos + WordBytes, hi)>>

\* ------------------------------------------------------------ data types
\* NameSpaceTable { bytes }.
NsTable(bs) == [bytes |-> bs]
\* NameSpaceTable::default(): no bytes at all.
NsTableDefault == NsTable(<<>>)
\* Payload { raw_payload, ns_table }.
Payload(raw, table) == [raw_payload |-> raw, ns_table |-> table]
\* Transaction: a body tagged with a namespace identifier.
Transaction(ns, body) == [namespace |-> ns, payload |-> body]

\* ------------------------------------------------- transaction table
\* End offsets of the transactions of one namespace, cumulative, relative to
\* the first byte after the table.
RECURSIVE tx_end_offsets(_, _)
tx_end_offsets(txs, from) ==
    IF txs = <<>> THEN <<>>
    ELSE LET end == from + Len(Head(txs).payload)
         IN  <<end>> \o tx_end_offsets(Tail(txs), end)

\* Word(count) ++ Word(end_offset)*count; fails when a cell overflows.
tx_table_build(txs) ==
    LET ends  == tx_end_offsets(txs, 0)
        cells == <<Len(txs)>> \o ends
        words == [i \in DOMAIN cells |-> word_try_from(cells[i])]
    IN  IF \A i \in DOMAIN words : words[i].ok
        THEN [ok |-> TRUE, bytes |-> Concat([i \in DOMAIN words |-> words[i].bytes])]
        ELSE [ok |-> FALSE, bytes |-> <<>>]

\* The byte region of one namespace: its transaction table, then the bodies.
ns_region_build(txs) ==
    LET table == tx_table_build(txs)
    IN  IF table.ok
        THEN [ok |-> TRUE,
              bytes |-> table.bytes \o Concat([i \in DOMAIN txs |-> txs[i].payload])]
        ELSE [ok |-> FALSE, bytes |-> <<>>]

\* --------------------------------------------------- namespace table
\* ns_table_build with the two cells of an entry in the wrong order.
ns_table_build_swapped(entries) ==
    LET cells == <<Len(entries)>> \o
                 Concat([j \in DOMAIN entries |-> <<entries[j].end, entries[j].id>>])
        words == [i \in DOMAIN cells |-> word_try_from(cells[i])]
    IN  IF \A i \in DOMAIN words : words[i].ok
        THEN [ok |-> TRUE,
              table |-> NsTable(Concat([i \in DOMAIN words |-> words[i].bytes]))]
        ELSE [ok |-> FALSE, table |-> NsTableDefault]

\* word[0]: number of entries; word[2j-1]: id of the jth namespace;
\* word[2j]: end byte index of the jth namespace in the payload.
\* entries is a sequence of [id, end]; fails when a cell overflows.
ns_table_build(entries) ==
    LET cells == <<Len(entries)>> \o
                 Concat([j \in DOMAIN entries |-> <<entries[j].id, entries[j].end>>])
        words == [i \in DOMAIN cells |-> word_try_from(cells[i])]
    IN  IF \A i \in DOMAIN words : words[i].ok
        THEN [ok |-> TRUE,
              table |-> NsTable(Concat([i \in DOMAIN words |-> words[i].bytes]))]
        ELSE [ok |-> FALSE, table |-> NsTableDefault]

\* Number of entries: word[0], no more than the entries the bytes hold.
ns_table_len(table) ==
    LET n == Len(table.bytes)
    IN  Min(read_word(table.bytes, 0, n, 0),
            Max(n - WordBytes, 0) \div (2 * WordBytes))

\* Entry j (0-based): the id is word[2j+1], the end offset word[2j+2].
get_table_entry(table, j) ==
    LET n == Len(table.bytes)
    IN  [id  |-> read_word(table.bytes, 0, n, (2 * j + 1) * WordBytes),
         end |-> read_word(table.bytes, 0, n, (2 * j + 2) * WordBytes)]

\* Lookup by index: (id, start, end) of namespace j in a payload of raw_len
\* bytes.  The start is 0 for the first entry and the previous entry's end
\* offset otherwise; both are cut to the payload, start never past end.
ns_lookup(table, j, raw_len) ==
    LET entry == get_table_entry(table, j)
        prev  == IF j = 0 THEN 0 ELSE get_table_entry(table, j - 1).end
        end   == Min(entry.end, raw_len)
    IN  [id |-> entry.id, start |-> Min(prev, end), end |-> end]

\* ------------------------------------------------- payload assembly
\* Step 1: the groups [ns, txs] keyed by namespace, in order of first
\* appearance, each group in the order supplied.
RECURSIVE update_namespaces(_, _)
update_namespaces(groups, txs) ==
    IF txs = <<>> THEN groups
    ELSE LET tx == Head(txs)
             at == {i \in DOMAIN groups : groups[i].ns = tx.namespace}
         IN  IF at = {}
             THEN update_namespaces(
                      Append(groups, [ns |-> tx.namespace, txs |-> <<tx>>]), Tail(txs))
             ELSE update_namespaces(
                      [i \in DOMAIN groups |->
                          IF i \in at
                          THEN [groups[i] EXCEPT !.txs = Append(@, tx)]
                          ELSE groups[i]],
                      Tail(txs))

\* Steps 2 and 3: the regions concatenated, recording each cumulative end.
RECURSIVE generate_raw_payload(_, _, _)
generate_raw_payload(groups, raw, entries) ==
    IF groups = <<>> THEN [ok |-> TRUE, raw |-> raw, entries |-> entries]
    ELSE LET region == ns_region_build(Head(groups).txs)
             bytes  == raw \o region.bytes
         IN  IF ~region.ok
             THEN [ok |-> FALSE, raw |-> <<>>, entries |-> <<>>]
             ELSE generate_raw_payload(
                      Tail(groups), bytes,
                      Append(entries, [id |-> Head(groups).ns, end |-> Len(bytes)]))

\* Step 4 and the result: the namespace table built from the recorded
\* entries, and Ok(payload) or the block-building error.
from_txs_result(assembled, ns_table) ==
    IF assembled.ok /\ ns_table.ok
    THEN [ok |-> TRUE, payload |-> Payload(assembled.raw, ns_table.table), err |-> "none"]
    ELSE [ok |-> FALSE, payload |-> Payload(<<>>, NsTableDefault),
          err |-> "BlockBuilding"]

from_txs_table(assembled) ==
    from_txs_result(assembled, ns_table_build(assembled.entries))

\* Payload::from_txs.
from_txs(txs) ==
    from_txs_table(generate_raw_payload(update_namespaces(<<>>, txs), <<>>, <<>>))

\* ------------------------------------------- decoding / enumeration
\* Number of transactions of the namespace region raw[lo..hi]: the count
\* Word, no more than the end offsets the region holds.
tx_table_len(raw, lo, hi) ==
    Min(read_word(raw, lo, hi, 0), Max(hi - lo - WordBytes, 0) \div WordBytes)

\* Byte range of transaction k (0-based) of the region raw[lo..hi]: its end
\* offsets count from the first byte after the table, the first start is 0,
\* and the range is cut to the region, start never past end.
tx_lookup(raw, lo, hi, k) ==
    LET bodies == lo + (tx_table_len(raw, lo, hi) + 1) * WordBytes
        prev   == IF k = 0 THEN 0 ELSE read_word(raw, lo, hi, k * WordBytes)
        end    == Min(bodies + read_word(raw, lo, hi, (k + 1) * WordBytes), hi)
    IN  [start |-> Min(bodies + prev, end), end |-> end]

\* What the iterator yields when it has nothing to yield.
NoItem == [index |-> [ns_idx |-> 0, tx_idx |-> 0], tx |-> Transaction(0, <<>>)]

\* The iterator before its first item.
TxIteratorNew == [ns_idx |-> 0, tx_idx |-> 0]

\* One next() of the transaction iterator at position it = [ns_idx, tx_idx]:
\* the item (index, Transaction) and the position after it, or none when the
\* namespaces are used up.  reads are the ranges of raw_payload it sliced.
RECURSIVE tx_iter_next(_, _, _)
tx_iter_next(payload, meta, it) ==
    LET raw == payload.raw_payload
    IN  IF it.ns_idx >= ns_table_len(meta)
        THEN [some |-> FALSE, item |-> NoItem, it |-> it, reads |-> {}]
        ELSE LET ns    == ns_lookup(meta, it.ns_idx, Len(raw))
                 count == read_word_range(ns.start, ns.end, 0)
             IN  IF it.tx_idx < tx_table_len(raw, ns.start, ns.end)
                 THEN LET r == tx_lookup(raw, ns.start, ns.end, it.tx_idx)
                      IN  [some  |-> TRUE,
                           item  |-> [index |-> it,
                                      tx |-> Transaction(ns.id, SubSeq(raw, r.start + 1, r.end))],
                           it    |-> [ns_idx |-> it.ns_idx, tx_idx |-> it.tx_idx + 1],
                           reads |-> {count,
                                      read_word_range(ns.start, ns.end, it.tx_idx * WordBytes),
                                      read_word_range(ns.start, ns.end, (it.tx_idx + 1) * WordBytes),
                                      <<r.start, r.end>>}]
                 ELSE LET rest == tx_iter_next(payload, meta,
                                               [ns_idx |-> it.ns_idx + 1, tx_idx |-> 0])
                      IN  [rest EXCEPT !.reads = @ \cup {count}]

\* QueryablePayload::enumerate, collected: the (index, Transaction) pairs in
\* (namespace order, intra-namespace order).
RECURSIVE enumerate_from(_, _, _)
enumerate_from(payload, meta, it) ==
    LET step == tx_iter_next(payload, meta, it)
    IN  IF step.some
        THEN <<step.item>> \o enumerate_from(payload, meta, step.it)
        ELSE <<>>

enumerate(payload, meta) == enumerate_from(payload, meta, TxIteratorNew)

\* ------------------------------------------------------- commitments
\* Committable::commit of a transaction: an opaque collision-free digest.
commit(tx) == [tag |-> "TX", of |-> tx]

\* sha2::Sha256: new, update, finalize.  The hash is collision free: the
\* digest stands for the bytes fed to it.
Sha256New == <<>>
Sha256Update(digest, bytes) == digest \o bytes
Sha256Finalize(digest) == [sha256 |-> digest]

\* ------------------------------------------- the BlockPayload contract
\* from_transactions_ok returning a default table instead of the payload's.
from_transactions_ok_default_metadata(payload_res) ==
    IF ~payload_res.ok
    THEN [ok |-> FALSE, payload |-> payload_res.payload, metadata |-> NsTableDefault,
          err |-> payload_res.err]
    ELSE [ok |-> TRUE, payload |-> payload_res.payload,
          metadata |-> NsTableDefault, err |-> "none"]

\* from_transactions_ok whose Option is None: the context is always the error.
from_transactions_ok_none(payload_res) ==
    [ok |-> FALSE, payload |-> payload_res.payload, metadata |-> NsTableDefault,
     err |-> "BlockBuilding"]

\* from_transactions_ok swallowing the error of from_txs: Ok of what is left.
from_transactions_ok_swallowed(payload_res) ==
    [ok |-> TRUE, payload |-> payload_res.payload,
     metadata |-> payload_res.payload.ns_table, err |-> "none"]

\* from_transactions, after `Payload::from_txs(txs)?`: the error goes to the
\* caller; otherwise the namespace table is cloned out of the payload and
\* Some((payload, ns_table)).context(BlockBuildingSnafu) is Ok.
from_transactions_ok(payload_res) ==
    IF ~payload_res.ok
    THEN [ok |-> FALSE, payload |-> payload_res.payload, metadata |-> NsTableDefault,
          err |-> payload_res.err]
    ELSE [ok |-> TRUE, payload |-> payload_res.payload,
          metadata |-> payload_res.payload.ns_table, err |-> "none"]

\* from_transactions consulting the state: any state but the mock one caps the
\* block at one transaction.
from_transactions_capped(txs, state) ==
    from_transactions_ok(from_txs(IF state = "mock" THEN txs
                                  ELSE SubSeq(txs, 1, Min(Len(txs), 1))))

\* from_transactions(txs, _state) -> Result<(Self, Metadata), Error>.
from_transactions(txs, state) == from_transactions_ok(from_txs(txs))

\* from_bytes keeping a length byte in front of the bytes.
from_bytes_framed(encoded_transactions, metadata) ==
    Payload(<<Len(encoded_transactions)>> \o encoded_transactions, metadata)

\* from_bytes(encoded_transactions, metadata) -> Self.
from_bytes(encoded_transactions, metadata) ==
    Payload(encoded_transactions, metadata)

\* Result::unwrap: the value, or a panic.
unwrap(res) ==
    [panicked |-> ~res.ok, payload |-> res.payload, metadata |-> res.metadata]

\* genesis() -> (Self, Metadata): from_transactions([], mock).unwrap().
genesis == unwrap(from_transactions(<<>>, "mock"))

\* encode framing the bytes with their length.
encode_framed(self) ==
    [ok |-> TRUE,
     bytes |-> to_le_bytes(Len(self.raw_payload), U64Bytes) \o self.raw_payload]

\* encode(&self) -> Result<Arc<[u8]>, Error>.
encode(self) == [ok |-> TRUE, bytes |-> self.raw_payload]

\* transaction_commitments enumerating under the payload's own table.
transaction_commitments_own_table(self, meta) ==
    LET items == enumerate(self, self.ns_table)
    IN  [i \in DOMAIN items |-> commit(items[i].tx)]

\* transaction_commitments(&self, meta) -> Vec<Commitment<Transaction>>.
transaction_commitments(self, meta) ==
    LET items == enumerate(self, meta)
    IN  [i \in DOMAIN items |-> commit(items[i].tx)]

\* builder_commitment feeding metadata.bytes before ns_table.bytes.
builder_commitment_swapped(self, metadata) ==
    LET d0 == Sha256New
        d1 == Sha256Update(d0, to_le_bytes(Len(self.raw_payload), U64Bytes))
        d2 == Sha256Update(d1, to_le_bytes(Len(self.ns_table.bytes), U64Bytes))
        d3 == Sha256Update(d2, to_le_bytes(Len(metadata.bytes), U64Bytes))
        d4 == Sha256Update(d3, self.raw_payload)
        d5 == Sha256Update(d4, metadata.bytes)
        d6 == Sha256Update(d5, self.ns_table.bytes)
    IN  Sha256Finalize(d6)

\* builder_commitment without the length prefixes.
builder_commitment_no_lengths(self, metadata) ==
    LET d0 == Sha256New
        d4 == Sha256Update(d0, self.raw_payload)
        d5 == Sha256Update(d4, self.ns_table.bytes)
        d6 == Sha256Update(d5, metadata.bytes)
    IN  Sha256Finalize(d6)

\* builder_commitment(&self, metadata) -> BuilderCommitment.
builder_commitment(self, metadata) ==
    LET d0 == Sha256New
        d1 == Sha256Update(d0, to_le_bytes(Len(self.raw_payload), U64Bytes))
        d2 == Sha256Update(d1, to_le_bytes(Len(self.ns_table.bytes), U64Bytes))
        d3 == Sha256Update(d2, to_le_bytes(Len(metadata.bytes), U64Bytes))
        d4 == Sha256Update(d3, self.raw_payload)
        d5 == Sha256Update(d4, self.ns_table.bytes)
        d6 == Sha256Update(d5, metadata.bytes)
    IN  Sha256Finalize(d6)

\* One next() of the iterator get_transactions returns:
\* self.enumerate(metadata).map(|(_, t)| t).
get_transactions_next(self, metadata, it) ==
    LET step == tx_iter_next(self, metadata, it)
    IN  [some |-> step.some, tx |-> step.item.tx, it |-> step.it, reads |-> step.reads]

\* get_transactions(&self, metadata), run to its end.
RECURSIVE get_transactions_from(_, _, _)
get_transactions_from(self, metadata, it) ==
    LET step == get_transactions_next(self, metadata, it)
    IN  IF step.some
        THEN <<step.tx>> \o get_transactions_from(self, metadata, step.it)
        ELSE <<>>

get_transactions(self, metadata) ==
    get_transactions_from(self, metadata, TxIteratorNew)

\* ---------------------------------------------------------------- inputs
NamespaceIds == {1, 2}
Big == [i \in 1..BigLen |-> 9]
TxBodies == {<<>>, <<1, 2>>, Big}
Transactions == {Transaction(n, b) : n \in NamespaceIds, b \in TxBodies}
TxSeqs == UNION {[1..k -> Transactions] : k \in 0..MaxTxs}
\* The InstanceState handed to from_transactions.
States == {"mock", "other"}

\* Byte strings handed to from_bytes, well formed or not.
RawInputs ==
    { <<>>,
      <<0>>,
      <<1, 1, 9>>,            \* one transaction, body <<9>>
      <<1, 1, 8>>,
      <<2, 1, 2, 8, 9>>,      \* two transactions, bodies <<8>> and <<9>>
      <<2, 2, 1, 5, 6>>,      \* end offsets that decrease
      <<1, 200, 5, 6>>,       \* an end offset past the region
      <<255, 255, 255>> }     \* a count the region cannot hold
\* Namespace tables handed to from_bytes as metadata, well formed or not.
MetaInputs ==
    { <<>>,
      <<0>>,
      <<1, 1, 3>>,            \* one namespace, ending at 3
      <<2, 1, 3, 2, 5>>,      \* two namespaces
      <<2, 1, 200, 2, 3>>,    \* end offsets that decrease, the first past the payload
      <<1, 1, 200>>,          \* an end offset past the payload
      <<255, 1, 4>>,          \* a count the table cannot hold
      <<1, 1>> }              \* an entry cut short
\* Tables other than its own that a caller may hand to an operation on a
\* payload.
ForeignMetas == {<<0>>, <<1, 1, 3>>, <<2, 1, 200, 2, 3>>}

\* ----------------------------------------------------------------- state
VARIABLES
    built,      \* the constructor that made the payload: none, from_transactions, from_bytes, genesis
    args,       \* the constructor's arguments [txs, state, raw, meta]
    have,       \* the constructor returned a payload
    payload,    \* the Payload (self)
    metadata,   \* the Metadata returned beside it
    err,        \* the constructor's error: none, BlockBuilding, panic
    op,         \* the last operation on the payload
    meta,       \* its metadata argument
    encoded,    \* the result of encode
    commits,    \* the result of transaction_commitments
    digest,     \* the result of builder_commitment
    iter,       \* the iterator get_transactions returned: [ns_idx, tx_idx, done]
    yielded,    \* the transactions it yielded so far
    reads       \* the ranges of raw_payload it sliced so far

vars == <<built, args, have, payload, metadata, err, op, meta, encoded, commits,
          digest, iter, yielded, reads>>

NoArgs == [txs |-> <<>>, state |-> "mock", raw |-> <<>>, meta |-> NsTableDefault]
NoPayload == Payload(<<>>, NsTableDefault)

\* No operation applied to the payload yet.
Fresh ==
    /\ op' = "none"
    /\ meta' = NsTableDefault
    /\ encoded' = [ok |-> FALSE, bytes |-> <<>>]
    /\ commits' = <<>>
    /\ digest' = Sha256Finalize(Sha256New)
    /\ iter' = [ns_idx |-> 0, tx_idx |-> 0, done |-> FALSE]
    /\ yielded' = <<>>
    /\ reads' = {}

Init ==
    /\ built = "none"
    /\ args = NoArgs
    /\ have = FALSE
    /\ payload = NoPayload
    /\ metadata = NsTableDefault
    /\ err = "none"
    /\ op = "none"
    /\ meta = NsTableDefault
    /\ encoded = [ok |-> FALSE, bytes |-> <<>>]
    /\ commits = <<>>
    /\ digest = Sha256Finalize(Sha256New)
    /\ iter = [ns_idx |-> 0, tx_idx |-> 0, done |-> FALSE]
    /\ yielded = <<>>
    /\ reads = {}

\* The metadata a caller hands to an operation on the payload: the table
\* that came with it, or another one.
MetaArgs == {metadata} \cup {NsTable(b) : b \in ForeignMetas}

\* A constructor returned r = [ok, payload, metadata, err].
Returned(r) ==
    /\ have' = r.ok
    /\ payload' = IF r.ok THEN r.payload ELSE NoPayload
    /\ metadata' = IF r.ok THEN r.metadata ELSE NsTableDefault
    /\ err' = r.err

\* A Payload is built once (from transactions, from bytes, or as the genesis
\* payload) and is immutable thereafter.
FromTransactions ==
    \E txs \in TxSeqs, state \in States :
        /\ built = "none"
        /\ built' = "from_transactions"
        /\ args' = [NoArgs EXCEPT !.txs = txs, !.state = state]
        /\ Returned(from_transactions(txs, state))
        /\ Fresh

FromBytes ==
    \E raw \in RawInputs, m \in MetaInputs :
        /\ built = "none"
        /\ built' = "from_bytes"
        /\ args' = [NoArgs EXCEPT !.raw = raw, !.meta = NsTable(m)]
        /\ Returned([ok |-> TRUE, payload |-> from_bytes(raw, NsTable(m)),
                     metadata |-> NsTable(m), err |-> "none"])
        /\ Fresh

\* What genesis() gave its caller: the pair, or a panic.
GenesisReturned(g) ==
    Returned([ok |-> ~g.panicked, payload |-> g.payload, metadata |-> g.metadata,
              err |-> IF g.panicked THEN "panic" ELSE "none"])

Genesis ==
    /\ built = "none"
    /\ built' = "genesis"
    /\ args' = NoArgs
    /\ GenesisReturned(genesis)
    /\ Fresh

Encode ==
    /\ have
    /\ op' = "encode"
    /\ meta' = NsTableDefault
    /\ encoded' = encode(payload)
    /\ commits' = <<>>
    /\ digest' = Sha256Finalize(Sha256New)
    /\ iter' = [ns_idx |-> 0, tx_idx |-> 0, done |-> FALSE]
    /\ yielded' = <<>>
    /\ reads' = {}
    /\ UNCHANGED <<built, args, have, payload, metadata, err>>

TransactionCommitments ==
    \E m \in MetaArgs :
        /\ have
        /\ op' = "transaction_commitments"
        /\ meta' = m
        /\ commits' = transaction_commitments(payload, m)
        /\ encoded' = [ok |-> FALSE, bytes |-> <<>>]
        /\ digest' = Sha256Finalize(Sha256New)
        /\ iter' = [ns_idx |-> 0, tx_idx |-> 0, done |-> FALSE]
        /\ yielded' = <<>>
        /\ reads' = {}
        /\ UNCHANGED <<built, args, have, payload, metadata, err>>

BuilderCommitment ==
    \E m \in MetaArgs :
        /\ have
        /\ op' = "builder_commitment"
        /\ meta' = m
        /\ digest' = builder_commitment(payload, m)
        /\ encoded' = [ok |-> FALSE, bytes |-> <<>>]
        /\ commits' = <<>>
        /\ iter' = [ns_idx |-> 0, tx_idx |-> 0, done |-> FALSE]
        /\ yielded' = <<>>
        /\ reads' = {}
        /\ UNCHANGED <<built, args, have, payload, metadata, err>>

\* get_transactions returns a lazy iterator: nothing is read yet.
GetTransactions ==
    \E m \in MetaArgs :
        /\ have
        /\ op' = "get_transactions"
        /\ meta' = m
        /\ iter' = [ns_idx |-> 0, tx_idx |-> 0, done |-> FALSE]
        /\ yielded' = <<>>
        /\ reads' = {}
        /\ encoded' = [ok |-> FALSE, bytes |-> <<>>]
        /\ commits' = <<>>
        /\ digest' = Sha256Finalize(Sha256New)
        /\ UNCHANGED <<built, args, have, payload, metadata, err>>

\* One next() on that iterator: a transaction, or the end.
IterNext ==
    /\ op = "get_transactions"
    /\ ~iter.done
    /\ LET step == get_transactions_next(payload, meta,
                                         [ns_idx |-> iter.ns_idx, tx_idx |-> iter.tx_idx])
       IN  /\ iter' = [ns_idx |-> step.it.ns_idx, tx_idx |-> step.it.tx_idx,
                       done |-> ~step.some]
           /\ yielded' = IF step.some THEN Append(yielded, step.tx) ELSE yielded
           /\ reads' = reads \cup step.reads
    /\ UNCHANGED <<built, args, have, payload, metadata, err, op, meta, encoded,
                   commits, digest>>

Next ==
    \/ FromTransactions
    \/ FromBytes
    \/ Genesis
    \/ Encode
    \/ TransactionCommitments
    \/ BuilderCommitment
    \/ GetTransactions
    \/ IterNext

Spec == Init /\ [][Next]_vars

\* ----------------------------------------------- what the claims refer to
RECURSIVE SumLen(_)
SumLen(txs) == IF txs = <<>> THEN 0 ELSE Len(Head(txs).payload) + SumLen(Tail(txs))

RECURSIVE SumOver(_, _)
SumOver(f, S) ==
    IF S = {} THEN 0
    ELSE LET x == CHOOSE y \in S : TRUE IN f[x] + SumOver(f, S \ {x})

NamespacesOf(txs) == {txs[i].namespace : i \in DOMAIN txs}
\* Where namespace n first appears in txs.
FirstAt(txs, n) ==
    CHOOSE i \in DOMAIN txs :
        txs[i].namespace = n /\ \A j \in 1..(i - 1) : txs[j].namespace # n
\* The transactions of namespace n among the first i of txs, in the order supplied.
GroupOf(txs, n, i) == SelectSeq(SubSeq(txs, 1, i), LAMBDA t : t.namespace = n)
\* Position (0-based) of namespace n in order of first appearance.
RankOf(txs, n) ==
    Cardinality({m \in NamespacesOf(txs) : FirstAt(txs, m) < FirstAt(txs, n)})
\* txs[j] comes before txs[i] once txs is grouped by namespace.
Before(txs, j, i) ==
    \/ FirstAt(txs, txs[j].namespace) < FirstAt(txs, txs[i].namespace)
    \/ txs[j].namespace = txs[i].namespace /\ j < i
\* txs grouped by namespace: namespaces in order of first appearance, each
\* group in the relative order supplied.
GroupedByNamespace(txs) ==
    [r \in DOMAIN txs |->
        txs[CHOOSE i \in DOMAIN txs :
                Cardinality({j \in DOMAIN txs : Before(txs, j, i)}) = r - 1]]

\* The cells a payload built from txs needs: per namespace the number of its
\* transactions and their end offsets, and in the namespace table the number
\* of namespaces and each region's end offset.
TxCount(txs, n) == Len(GroupOf(txs, n, Len(txs)))
TxEnd(txs, i) == SumLen(GroupOf(txs, txs[i].namespace, i))
RegionSize(txs, n) ==
    WordBytes * (1 + TxCount(txs, n)) + SumLen(GroupOf(txs, n, Len(txs)))
NsEnd(txs, n) ==
    SumOver([m \in NamespacesOf(txs) |-> RegionSize(txs, m)],
            {m \in NamespacesOf(txs) : FirstAt(txs, m) <= FirstAt(txs, n)})
TxTableCells(txs) ==
    {TxCount(txs, n) : n \in NamespacesOf(txs)} \cup {TxEnd(txs, i) : i \in DOMAIN txs}
NsTableCells(txs) ==
    {Cardinality(NamespacesOf(txs))} \cup {NsEnd(txs, n) : n \in NamespacesOf(txs)}
NeedsOverflow(txs) == \E c \in TxTableCells(txs) \cup NsTableCells(txs) : c > WordMax

\* bs with its i-th byte changed.
Flip(bs, i) == [bs EXCEPT ![i] = (@ + 1) % ByteBase]

\* ------------------------------------------------------------------ C1
\* C1: round trip.  When from_transactions(txs, state) succeeds with
\* (payload, metadata), the transactions get_transactions(payload, metadata)
\* yields, run to its end, are txs grouped by namespace: namespaces in order
\* of first appearance, each group in the relative order supplied.
C1_RoundTrip ==
    (built = "from_transactions" /\ have /\ op = "get_transactions"
        /\ meta = metadata /\ iter.done)
    => yielded = GroupedByNamespace(args.txs)

\* Three transactions, the namespaces interleaved: the round trip regroups them.
C1_Witness ==
    /\ built = "from_transactions" /\ have /\ op = "get_transactions"
    /\ meta = metadata /\ iter.done
    /\ Len(yielded) = 3
    /\ yielded # args.txs
    /\ \E i \in DOMAIN yielded : Len(yielded[i].payload) > 1

\* ------------------------------------------------------------------ C2
\* C2: builder_commitment(payload, metadata) is the SHA-256 of exactly: the
\* 8-byte little-endian lengths of raw_payload, of payload.ns_table.bytes and
\* of metadata.bytes, then raw_payload, then payload.ns_table.bytes, then
\* metadata.bytes, and nothing else.
C2_DigestLayout ==
    op = "builder_commitment" =>
        LET d  == digest.sha256
            r  == payload.raw_payload
            n  == payload.ns_table.bytes
            m  == meta.bytes
            at == 3 * U64Bytes
        IN  /\ Len(d) = at + Len(r) + Len(n) + Len(m)
            /\ \A i \in 1..at : d[i] \in 0..(ByteBase - 1)
            /\ from_le_bytes(SubSeq(d, 1, U64Bytes)) = Len(r)
            /\ from_le_bytes(SubSeq(d, U64Bytes + 1, 2 * U64Bytes)) = Len(n)
            /\ from_le_bytes(SubSeq(d, 2 * U64Bytes + 1, at)) = Len(m)
            /\ SubSeq(d, at + 1, at + Len(r)) = r
            /\ SubSeq(d, at + Len(r) + 1, at + Len(r) + Len(n)) = n
            /\ SubSeq(d, at + Len(r) + Len(n) + 1, Len(d)) = m

\* A digest over three non-empty fields, the metadata not the payload's table.
C2_Witness ==
    /\ op = "builder_commitment"
    /\ Len(payload.raw_payload) > 0
    /\ Len(payload.ns_table.bytes) > 0
    /\ Len(meta.bytes) > 0
    /\ meta # payload.ns_table

\* ------------------------------------------------------------------ C3
\* C3: builder_commitment is a function of (raw_payload, ns_table.bytes,
\* metadata.bytes) alone, and one to one on them (the hash being collision
\* free): the same triple gives the same digest, changing any single byte of
\* any of the three changes it, and so does any other triple, whatever the
\* lengths of its fields.
C3_DigestInjective ==
    op = "builder_commitment" =>
        LET r == payload.raw_payload
            n == payload.ns_table.bytes
            m == meta.bytes
        IN  /\ \A i \in DOMAIN r :
                   builder_commitment(Payload(Flip(r, i), NsTable(n)), NsTable(m)) # digest
            /\ \A i \in DOMAIN n :
                   builder_commitment(Payload(r, NsTable(Flip(n, i))), NsTable(m)) # digest
            /\ \A i \in DOMAIN m :
                   builder_commitment(Payload(r, NsTable(n)), NsTable(Flip(m, i))) # digest
            /\ \A r2 \in RawInputs, n2 \in MetaInputs, m2 \in ForeignMetas :
                   (builder_commitment(Payload(r2, NsTable(n2)), NsTable(m2)) = digest)
                       <=> (r2 = r /\ n2 = n /\ m2 = m)

\* The digest of an empty payload with a one-byte table: without the length
\* prefixes, a one-byte payload with an empty table would digest the same.
C3_Witness ==
    /\ op = "builder_commitment"
    /\ built = "from_bytes"
    /\ payload.raw_payload = <<>>
    /\ payload.ns_table.bytes = <<0>>
    /\ meta.bytes = <<1, 1, 3>>

\* ------------------------------------------------------------------ C4
\* C4: genesis() never panics; it returns a Payload with no raw bytes and a
\* Namespace Table with no entries, the very result of from_transactions on
\* the empty transaction sequence.
C4_Genesis ==
    built = "genesis" =>
        /\ have
        /\ err = "none"
        /\ payload.raw_payload = <<>>
        /\ ns_table_len(payload.ns_table) = 0
        /\ ns_table_len(metadata) = 0
        /\ \A s \in States :
               from_transactions(<<>>, s) =
                   [ok |-> TRUE, payload |-> payload, metadata |-> metadata, err |-> "none"]

\* The genesis payload, built and encoded.
C4_Witness ==
    built = "genesis" /\ have /\ op = "encode" /\ encoded.bytes = <<>>

\* ------------------------------------------------------------------ C5
\* C5: overflow rejection.  Whenever the payload for txs needs a table cell
\* (a count or an end offset, of a transaction table or of the namespace
\* table) above the largest value a Word holds, from_transactions returns the
\* block-building error and no payload; and every cell of a payload it does
\* return holds the true count or offset, never a truncated or wrapped one.
C5_OverflowRejected ==
    built = "from_transactions" =>
        LET txs == args.txs
            raw == payload.raw_payload
            tb  == payload.ns_table.bytes
        IN  /\ NeedsOverflow(txs) => (~have /\ err = "BlockBuilding")
            /\ have =>
                /\ read_word(tb, 0, Len(tb), 0) = Cardinality(NamespacesOf(txs))
                /\ \A n \in NamespacesOf(txs) :
                       get_table_entry(payload.ns_table, RankOf(txs, n)) =
                           [id |-> n, end |-> NsEnd(txs, n)]
                /\ \A i \in DOMAIN txs :
                       LET n  == txs[i].namespace
                           hi == NsEnd(txs, n)
                           lo == hi - RegionSize(txs, n)
                           k  == Len(GroupOf(txs, n, i))
                       IN  /\ read_word(raw, lo, hi, 0) = TxCount(txs, n)
                           /\ read_word(raw, lo, hi, k * WordBytes) = TxEnd(txs, i)

\* Two long transactions in two namespaces: each transaction table fits its
\* Words, the namespace table's second end offset does not.
C5_Witness ==
    /\ built = "from_transactions"
    /\ ~have
    /\ err = "BlockBuilding"
    /\ \E c \in NsTableCells(args.txs) : c > WordMax
    /\ \A c \in TxTableCells(args.txs) : c <= WordMax

\* ------------------------------------------------------------------ C6
\* C6: monotonicity.  In every payload from_transactions returns, the end
\* offsets of the Namespace Table, in table order, never decrease; the start
\* offset of a namespace is 0 for the first entry and the end offset of the
\* entry before it otherwise; and the last end offset is the length of
\* raw_payload.
C6_Monotonic ==
    (built = "from_transactions" /\ have) =>
        LET t   == payload.ns_table
            len == Len(payload.raw_payload)
            n   == read_word(t.bytes, 0, Len(t.bytes), 0)
        IN  /\ Len(t.bytes) = (1 + 2 * n) * WordBytes
            /\ ns_table_len(t) = n
            /\ \A j \in 0..(n - 1) :
                   /\ j > 0 => get_table_entry(t, j - 1).end <= get_table_entry(t, j).end
                   /\ ns_lookup(t, j, len).end = get_table_entry(t, j).end
                   /\ ns_lookup(t, j, len).start =
                          (IF j = 0 THEN 0 ELSE get_table_entry(t, j - 1).end)
            /\ n > 0 => get_table_entry(t, n - 1).end = len
            /\ n = 0 => len = 0

\* A table of two namespaces, the second ending where the payload ends.
C6_Witness ==
    /\ built = "from_transactions" /\ have
    /\ ns_table_len(payload.ns_table) = 2
    /\ get_table_entry(payload.ns_table, 0).end < get_table_entry(payload.ns_table, 1).end
    /\ get_table_entry(payload.ns_table, 1).end = Len(payload.raw_payload)
    /\ Len(payload.raw_payload) > BigLen

C8_Verbatim ==
    /\ built = "from_bytes" =>
           /\ have
           /\ err = "none"
           /\ payload.ns_table = args.meta
           /\ op = "encode" => encoded = [ok |-> TRUE, bytes |-> args.raw]
    /\ op = "encode" => encoded.ok

\* Bytes and a table that are both malformed, taken as they are.
C8_Witness ==
    /\ built = "from_bytes" /\ op = "encode"
    /\ args.raw = <<255, 255, 255>>
    /\ args.meta.bytes = <<1, 1>>
    /\ encoded.bytes = <<255, 255, 255>>

\* ------------------------------------------------------------------ C9
\* C9: transaction_commitments(payload, metadata) holds one commitment per
\* transaction, in canonical order: it is as long as the sequence
\* get_transactions(payload, metadata) yields, and its i-th element is the
\* commitment of the i-th transaction yielded.
C9_CommitmentsInOrder ==
    op = "transaction_commitments" =>
        LET txs == get_transactions(payload, meta)
        IN  /\ Len(commits) = Len(txs)
            /\ \A i \in DOMAIN txs : commits[i] = commit(txs[i])

\* Commitments under a table that is not the payload's own.
C9_Witness ==
    /\ op = "transaction_commitments"
    /\ meta # payload.ns_table
    /\ Len(commits) >= 2
    /\ commits[1] # commits[2]

\* ----------------------------------------------------------------- C10
\* C10: when from_transactions(txs, state) succeeds with (payload, metadata),
\* metadata is the Namespace Table embedded in the payload, so that
\* builder_commitment(payload, metadata) digests the same table bytes twice;
\* and the result does not depend on state.
C10_MetadataIsTable ==
    built = "from_transactions" =>
        /\ \A s \in States : from_transactions(args.txs, s).ok = have
        /\ have =>
            /\ metadata = payload.ns_table
            /\ metadata.bytes = payload.ns_table.bytes
            /\ \A s \in States :
                   from_transactions(args.txs, s) =
                       [ok |-> TRUE, payload |-> payload, metadata |-> metadata,
                        err |-> "none"]
            /\ (op = "builder_commitment" /\ meta = metadata) =>
                   LET d  == digest.sha256
                       at == 3 * U64Bytes + Len(payload.raw_payload)
                       n  == Len(metadata.bytes)
                   IN  /\ Len(d) = at + 2 * n
                       /\ SubSeq(d, at + 1, at + n) = SubSeq(d, at + n + 1, at + 2 * n)
                       /\ SubSeq(d, at + 1, at + n) = metadata.bytes

\* A payload built under the second state, its own table digested twice.
C10_Witness ==
    /\ built = "from_transactions" /\ have
    /\ args.state = "other"
    /\ op = "builder_commitment" /\ meta = metadata
    /\ Len(metadata.bytes) > WordBytes

====
